---- MODULE Spec2Model ----
(***************************************************************************)
(* Model of auto_review.py: the LockFile (flock on .auto_review.lock) and  *)
(* AutoReviewer.run_once, the review-fix session it guards.                *)
(*                                                                         *)
(* Spec      several processes, each calling run_once again and again      *)
(*           (run_with_interval / cron / repeated --once invocations).     *)
(*           Process 1 is followed statement by statement.  The other      *)
(*           processes run the same run_once in two steps: acquire(), and  *)
(*           then the try block together with release().  Any process may  *)
(*           be killed while it runs.                                      *)
(* LockSpec  several processes calling LockFile.acquire and                *)
(*           LockFile.release in any order (the class used on its own).    *)
(*                                                                         *)
(* The lock file is modelled as the kernel sees it: a directory entry      *)
(* (path) naming an inode, one open file description per process (fd),     *)
(* and a flock owned by an open file description.                          *)
(***************************************************************************)
EXTENDS Integers, FiniteSets, Sequences, TLC

\* ---------------------------------------------------------------- bounds
NumProcs == 2
MaxLen == 3            \* pieces in a reviewer output
FeedbackLimit == 1     \* pieces kept of the feedback (the code keeps 1000
                       \* characters; scaled to the outputs explored)
LastLineCount == 1     \* lines kept when no marker is found (the code keeps
                       \* 20; scaled to the outputs explored)
MaxIterations == 2
MaxLines == 3          \* lines of a reasoning-API response
MaxFileSize == 3       \* characters in a file of the audit target
MaxFiles == 2          \* files under an audit target directory
NumSeconds == 2        \* clock readings a branch name can carry

Procs == 1..NumProcs
\* The process whose run_once is followed statement by statement.
Traced == {1}
Others == Procs \ Traced
\* One inode per open description plus the one the path names is enough.
Inodes == 1..(NumProcs + 1)
\* --max-iterations is any integer (argparse type=int, no range check).
IterationChoices == (0 - 1)..MaxIterations

\* AutoReviewer(max_iterations=3), auto_merge=False: the defaults
DefaultMaxIterations == 3
\* random.choices(string.ascii_lowercase, k=4)
SuffixLen == 4

VARIABLES
    pc,              \* pc[p]: where process p is in acquire / run_once / release
    fd,              \* fd[p]: inode of LockFile.fd of p, 0 when self.fd is None
    path,            \* inode the lock path names, 0 when no file is there
    locked,          \* locked[i]: process whose description holds the flock on i
    content,         \* the file the path names: 0 when absent or empty, else
                     \* the pid written in it
    holder,          \* holder[p]: p is between its successful flock and LOCK_UN
    stale,           \* the path names a lock file a crashed holder left
    sess,            \* sess[p], p traced: its run_once call (locals and history)
    last,            \* last[p]: the LockFile call p made last, in LockSpec
    max_iterations,  \* AutoReviewer.max_iterations
    auto_merge,      \* AutoReviewer.auto_merge
    enabled,         \* AutoReviewer.telegram.enabled
    io,              \* a helper called on its own: its name, input and result
    audit            \* a run of the audit tool: the locals of its main()

vars == <<pc, fd, path, locked, content, holder, stale, sess, last,
          max_iterations, auto_merge, enabled, io, audit>>

lockVars == <<fd, path, locked, content>>
config == <<max_iterations, auto_merge, enabled>>

\* ------------------------------------------------------- lock file state
\* The state LockFile reads and writes, as one value.
LS == [fd |-> fd, path |-> path, locked |-> locked, content |-> content]

Referenced(s, i) == s.path = i \/ \E q \in Procs : s.fd[q] = i

\* An inode nobody names or has open is gone: its number can be used again.
Reclaim(s) ==
    [s EXCEPT !.locked = [i \in Inodes |->
                             IF Referenced(s, i) THEN s.locked[i] ELSE 0]]

\* Inode numbers carry no meaning of their own: the files in use are numbered
\* in the order of the path first, then the processes that have them open.
InodeRank(s) ==
    LET used  == {i \in Inodes : Referenced(s, i)}
        first == [i \in used |->
                    IF s.path = i THEN 0
                    ELSE CHOOSE q \in Procs :
                             s.fd[q] = i /\ \A r \in Procs : s.fd[r] = i => q <= r]
    IN  [i \in 0..(NumProcs + 1) |->
            IF i \in used THEN Cardinality({j \in used : first[j] <= first[i]})
            ELSE 0]

Renumbered(s, rank) ==
    [fd      |-> [q \in Procs |-> rank[s.fd[q]]],
     path    |-> rank[s.path],
     locked  |-> [k \in Inodes |->
                    IF \E i \in Inodes : rank[i] = k
                    THEN s.locked[CHOOSE i \in Inodes : rank[i] = k]
                    ELSE 0],
     content |-> s.content]

FreshInode(s) == CHOOSE i \in Inodes :
    /\ ~Referenced(s, i)
    /\ \A j \in Inodes : ~Referenced(s, j) => i <= j

\* open(self.path, 'w'): creates the file when absent, truncates it always.
\* (Opened exclusively it would refuse a file that is already there and leave
\* self.fd None.)
OpenExclusive(s, p) ==
    IF s.path = 0
    THEN LET i == FreshInode(s)
         IN  [s EXCEPT !.path = i, !.fd[p] = i, !.content = 0]
    ELSE s

OpenW(s, p) ==
    IF s.path = 0
    THEN LET i == FreshInode(s)
         IN  [s EXCEPT !.path = i, !.fd[p] = i, !.content = 0]
    ELSE [s EXCEPT !.fd[p] = s.path, !.content = 0]

\* fcntl.flock(fd, LOCK_EX | LOCK_NB): raises at once when another open
\* description holds the lock.
FlockOk(s, p) == s.locked[s.fd[p]] = 0

FlockTake(s, p) == [s EXCEPT !.locked[s.fd[p]] = p]

\* fd.write(pid, timestamp); fd.flush()
\* A write to a file that has been unlinked shows in no file the path names.
WritePid(s, p) == IF s.fd[p] = s.path THEN [s EXCEPT !.content = p] ELSE s

\* fd.close(); self.fd = None.  Closing a description drops its flock.
CloseFd(s, p) ==
    IF s.fd[p] = 0 THEN s
    ELSE Reclaim([s EXCEPT !.locked[s.fd[p]] = IF @ = p THEN 0 ELSE @,
                           !.fd[p] = 0])

\* release(): if self.fd: fcntl.flock(self.fd, LOCK_UN)
ReleaseUnlockSkipped(s, p) == s

ReleaseUnlock(s, p) ==
    IF s.fd[p] = 0 THEN s
    ELSE [s EXCEPT !.locked[s.fd[p]] = IF @ = p THEN 0 ELSE @]

\* release(): self.fd.close() ... finally: self.fd = None
ReleaseCloseKeepsFd(s, p) ==
    IF s.fd[p] = 0 THEN s
    ELSE [s EXCEPT !.locked[s.fd[p]] = IF @ = p THEN 0 ELSE @]

ReleaseClose(s, p) == CloseFd(s, p)

\* release(): try: self.path.unlink() except: pass
ReleaseUnlink(s, p) == Reclaim([s EXCEPT !.path = 0, !.content = 0])

\* release() run from start to end with no other process in between.
Release(s, p) == ReleaseUnlink(ReleaseClose(ReleaseUnlock(s, p), p), p)

SetLock(s) ==
    \E v \in {s} : \E r \in {InodeRank(v)} : \E n \in {Renumbered(v, r)} :
        /\ fd' = n.fd
        /\ path' = n.path
        /\ locked' = n.locked
        /\ content' = n.content

\* The stale lock file is gone once the path stops naming it.
StaleAfter(s) == stale /\ s.path # 0

\* ------------------------------------------------- LockFile.acquire steps
\* self.fd = open(...); an open that raises leaves self.fd None and acquire
\* returns False
AcqOpen(p) ==
    /\ pc[p] = "acq_open"
    /\ SetLock(OpenW(LS, p))
    /\ pc' = [pc EXCEPT ![p] = IF OpenW(LS, p).fd[p] = 0
                               THEN "acq_ret_false" ELSE "acq_flock"]
    /\ UNCHANGED <<holder, stale, sess, last, config, io, audit>>

AcqFlock(p) ==
    /\ pc[p] = "acq_flock"
    /\ IF FlockOk(LS, p)
       THEN /\ SetLock(FlockTake(LS, p))
            /\ holder' = [holder EXCEPT ![p] = TRUE]
            /\ pc' = [pc EXCEPT ![p] = "acq_write"]
       ELSE /\ SetLock(CloseFd(LS, p))
            /\ holder' = holder
            /\ pc' = [pc EXCEPT ![p] = "acq_ret_false"]
    /\ UNCHANGED <<stale, sess, last, config, io, audit>>

AcqWrite(p) ==
    /\ pc[p] = "acq_write"
    /\ SetLock(WritePid(LS, p))
    /\ pc' = [pc EXCEPT ![p] = "acq_ret_true"]
    /\ UNCHANGED <<holder, stale, sess, last, config, io, audit>>

\* ------------------------------------------------- LockFile.release steps
RelUnlock(p) ==
    /\ pc[p] = "rel_unlock"
    /\ SetLock(ReleaseUnlock(LS, p))
    /\ holder' = [holder EXCEPT ![p] = FALSE]
    /\ pc' = [pc EXCEPT ![p] = "rel_close"]
    /\ UNCHANGED <<stale, sess, last, config, io, audit>>

RelClose(p) ==
    /\ pc[p] = "rel_close"
    /\ SetLock(ReleaseClose(LS, p))
    /\ pc' = [pc EXCEPT ![p] = "rel_unlink"]
    /\ UNCHANGED <<holder, stale, sess, last, config, io, audit>>

RelUnlink(p) ==
    /\ pc[p] = "rel_unlink"
    /\ SetLock(ReleaseUnlink(LS, p))
    /\ stale' = StaleAfter(ReleaseUnlink(LS, p))
    /\ pc' = [pc EXCEPT ![p] = "rel_ret"]
    /\ UNCHANGED <<holder, sess, last, config, io, audit>>

\* ------------------------------------------------------ run_once: locals
\* The locals of one run_once call and the record of what it has done so far.
InitSess ==
    [acquired       |-> FALSE,   \* lock_file.acquire() returned True
     current_branch |-> FALSE,   \* self.current_branch is set
     iteration      |-> 0,       \* the loop counter of the review-fix loop
     outcome        |-> "none",  \* which terminal notification is due
     result         |-> "none",  \* "true", "false" (returned) or "raised"
     exit           |-> "none",  \* the exit status of a one-shot run
     assistant      |-> "none",  \* run_review_and_fix: "ok" or "failed"
     ahead          |-> "none",  \* has_commits_ahead as run_once called it
     pull           |-> "none",  \* git pull --rebase: "ok" or "failed"
     push           |-> "none",  \* git push: "ok" or "failed"
     create         |-> "none",  \* gh pr create: "url", "no_url" or "failed"
     approved       |-> "none",  \* the latest review: "yes" or "no"
     approvals      |-> 0,       \* reviews that ended approved
     fixFails       |-> 0,       \* fixer invocations that failed
     nCoBase        |-> 0,       \* git checkout <base> in create_branch
     nPull          |-> 0,       \* git pull --rebase
     nCoNew         |-> 0,       \* git checkout -b <branch>
     nAssistant     |-> 0,       \* claude --print <review_prompt>
     nAhead         |-> 0,       \* git rev-list --count <base>..HEAD
     nPush          |-> 0,       \* git push -u origin <branch>
     nCreate        |-> 0,       \* gh pr create
     nReview        |-> 0,       \* reviewer invocations
     nFix           |-> 0,       \* fixer invocations
     nMerge         |-> 0,       \* gh pr merge
     nCleanup       |-> 0,       \* git checkout <base> in cleanup_branch
     notes          |-> {}]      \* notifications handed to telegram.send

\* What `git rev-list --count base..HEAD` can come back with.
AheadOutcomes == {"ahead", "zero", "failed", "garbled"}

\* has_commits_ahead(): success and int(output) > 0; False on a failed command
\* and on output that is no number.
HasCommitsAhead(o) == o = "ahead"

\* What the reviewer's run_claude can come back with: whether the command
\* succeeded, and which verdict phrases its output holds.
ReviewOutputs == [ok : BOOLEAN, affirm : BOOLEAN, reject : BOOLEAN]

\* review_pr_with_claude: (approved / lgtm / ready to merge / recommend
\* merging in output) and changes_requested not in output.
Approved(out) == out.affirm /\ ~out.reject

\* create_branch, were a failed pull to end it as a failed checkout does.
AfterPullFatal(ok) == IF ok THEN "co_new" ELSE "note_branch"

\* create_branch: if not success: self.log("Warning: Failed to pull ...");
\* the function goes on to git checkout -b either way.
AfterPull(ok) == "co_new"

\* if not self.lock_file.acquire(): ... return False
AfterAcquireAlways(ok) == "co_base"

AfterAcquire(ok) == IF ok THEN "co_base" ELSE "returned"

\* try: ... finally: self.lock_file.release().  Every way out of the try
\* block, a return or a raised exception, goes through release().
ExitPcReturnOnly(how) == IF how = "raise" THEN "returned" ELSE "rel_unlock"

ExitPc(how) == "rel_unlock"

\* success, summary = self.run_review_and_fix(); if not success: ...
AfterAssistantIgnored(ok) == "ahead"

AfterAssistant(ok) == IF ok THEN "ahead" ELSE "cleanupA"

\* if not self.has_commits_ahead(): ... return True
AfterAheadAlways(ahead) == "pr_ahead"

AfterAhead(ahead) == IF ahead THEN "pr_ahead" ELSE "cleanupA"

\* create_pull_request: if not success: log("Failed to push ..."); return None
AfterPushIgnored(ok) == "gh_create"

AfterPush(ok) == IF ok THEN "gh_create" ELSE "cleanupA"

\* What gh pr create and the scan of its output for the URL can come to.
CreateOutcomes == {"failed", "url", "no_url"}

\* pr_url = self.create_pull_request(summary); if not pr_url: ... return False
AfterCreateIgnored(r) == "loop"

AfterCreate(r) == IF r = "url" THEN "loop" ELSE "cleanupA"

\* while iteration < self.max_iterations:
LoopGoesOnInclusive(iteration, max) == iteration <= max

LoopGoesOn(iteration, max) == iteration < max

\* if approved: ... if self.auto_merge: merged = self.merge_pr(pr_url)
AfterApprovalAlwaysMerge(auto) == "merge"

AfterApproval(auto) == IF auto THEN "merge" ELSE "noteB"

\* if not fix_success: ... break
AfterFixGoesOn(ok) == "loop"

AfterFixLeaves(ok) == IF ok THEN "after_loop" ELSE "note_fixfail"

AfterFix(ok) == IF ok THEN "loop" ELSE "note_fixfail"

\* if iteration >= self.max_iterations:
MaxReachedStrict(iteration, max) == iteration > max

MaxReached(iteration, max) == iteration >= max

\* sys.exit(0 if success else 1)
ExitCode(success) == IF success THEN 0 ELSE 1

\* The return value of run_once for each outcome reached before the loop.
ResultOf(outcome) == IF outcome = "no_changes" THEN "true" ELSE "false"

\* The statements of run_once inside try: where an exception can be raised.
TryPcs == {"co_base", "pull", "co_new", "note_branch", "assistant", "ahead",
           "cleanupA", "noteA", "pr_ahead", "push", "gh_create", "loop",
           "review", "merge", "noteB", "note_fixing", "fix", "note_fixfail",
           "after_loop", "cleanupB"}

S(p) == sess[p]

Goto(p, where) == pc' = [pc EXCEPT ![p] = where]

Upd(p, s) == sess' = [sess EXCEPT ![p] = s]

\* A process killed while it runs (SIGKILL, power loss): the kernel closes its
\* descriptor, which drops its flock; release() never runs, so the lock file
\* stays on disk when the process held the lock.
Crash(p) ==
    /\ pc[p] # "idle"
    /\ SetLock(CloseFd(LS, p))
    /\ stale' = (stale \/ (holder[p] /\ path # 0 /\ path = fd[p]))
    /\ holder' = [holder EXCEPT ![p] = FALSE]
    /\ pc' = [pc EXCEPT ![p] = "idle"]
    /\ sess' = [t \in Traced |-> IF t = p THEN InitSess ELSE sess[t]]
    /\ UNCHANGED <<last, config, io, audit>>

\* ------------------------------------------------- TelegramNotifier.send
\* What urlopen can come to: status 200, another status, or an exception
\* (URLError, HTTPError, a timeout).
NetOutcomes == {"200", "other_status", "error"}

\* send(): False when not enabled; response.status == 200 otherwise; the
\* try/except around the request turns every exception into False.
SendUncaught(en, net) ==
    IF ~en THEN "false"
    ELSE IF net = "200" THEN "true"
    ELSE IF net = "error" THEN "raised" ELSE "false"

Send(en, net) ==
    IF ~en THEN "false"
    ELSE IF net = "200" THEN "true" ELSE "false"

Notified(s, note) == [s EXCEPT !.notes = @ \cup {note}]

\* self.telegram.send(...) as a statement of run_once: its value is dropped;
\* an exception out of it would leave the try block like any other.
SendStep(r, s, note, next, done) ==
    IF r = "raised"
    THEN [pc |-> ExitPc("raise"),
          sess |-> [Notified(s, note) EXCEPT !.result = "raised"]]
    ELSE [pc |-> next, sess |-> done]

\* The statements of run_once that notify, each with what follows it up to
\* the next command: at is the statement, s the session, en and net the
\* notifier's configuration and what the network does.
NotifyStep(at, s, max, en, net) ==
    LET r == Send(en, net)
    IN  CASE at = "note_branch" ->
                 SendStep(r, s, "branch_failed", ExitPc("return"),
                          [Notified(s, "branch_failed") EXCEPT
                              !.outcome = "branch_failed", !.result = "false"])
          [] at = "noteA" ->
                 SendStep(r, s, s.outcome, ExitPc("return"),
                          [Notified(s, s.outcome) EXCEPT
                              !.result = ResultOf(s.outcome)])
          [] at = "noteB" ->
                 SendStep(r, s, s.outcome, "cleanupB", Notified(s, s.outcome))
          [] at = "note_fixing" ->
                 SendStep(r, s, "fixing", "fix", Notified(s, "fixing"))
          [] at = "note_fixfail" ->
                 SendStep(r, s, "fixer_failed", "after_loop",
                          Notified(s, "fixer_failed"))
          [] at = "after_loop" ->
                 IF MaxReached(s.iteration, max)
                 THEN SendStep(r, s, "max_iterations", "cleanupB",
                               [Notified(s, "max_iterations") EXCEPT
                                   !.outcome = IF @ = "none"
                                               THEN "max_iterations" ELSE @])
                 ELSE [pc |-> "cleanupB", sess |-> s]

\* ------------------------------------------------------ run_once: steps
\* Every step of run_once leaves the lock file and the configuration alone.
Local == UNCHANGED <<lockVars, holder, stale, last, config, io, audit>>

\* The notifying statement p is at, whatever the network does.
Notify(p) ==
    \E net \in NetOutcomes :
        LET st == NotifyStep(pc[p], S(p), max_iterations, enabled, net)
        IN  /\ Goto(p, st.pc)
            /\ Upd(p, st.sess)

RunOnceStart(p) ==
    /\ pc[p] = "idle"
    /\ Goto(p, "acq_open")
    /\ UNCHANGED sess
    /\ Local

\* if not self.lock_file.acquire(): log; return False
RunOnceLocked(p) ==
    /\ pc[p] \in {"acq_ret_true", "acq_ret_false"}
    /\ LET ok == pc[p] = "acq_ret_true"
           next == AfterAcquire(ok)
       IN  /\ Goto(p, next)
           /\ Upd(p, [S(p) EXCEPT !.acquired = ok,
                                  !.result = IF next = "returned"
                                             THEN "false" ELSE "none"])
    /\ Local

\* create_branch: git checkout <base>
CheckoutBase(p) ==
    /\ pc[p] = "co_base"
    /\ \E ok \in BOOLEAN :
         /\ Goto(p, IF ok THEN "pull" ELSE "note_branch")
         /\ Upd(p, [S(p) EXCEPT !.nCoBase = @ + 1])
    /\ Local

\* create_branch: git pull --rebase; a failure is logged and nothing more
Pull(p) ==
    /\ pc[p] = "pull"
    /\ \E ok \in BOOLEAN :
         /\ Goto(p, AfterPull(ok))
         /\ Upd(p, [S(p) EXCEPT !.nPull = @ + 1,
                                !.pull = IF ok THEN "ok" ELSE "failed"])
    /\ Local

\* create_branch: git checkout -b <branch>; self.current_branch = branch
CheckoutNew(p) ==
    /\ pc[p] = "co_new"
    /\ \E ok \in BOOLEAN :
         /\ Goto(p, IF ok THEN "assistant" ELSE "note_branch")
         /\ Upd(p, [S(p) EXCEPT !.nCoNew = @ + 1, !.current_branch = ok])
    /\ Local

\* if not self.create_branch(...): log; telegram.send(...); return False
NoteBranch(p) ==
    /\ pc[p] = "note_branch"
    /\ Notify(p)
    /\ Local

\* success, summary = self.run_review_and_fix()
RunAssistant(p) ==
    /\ pc[p] = "assistant"
    /\ \E ok \in BOOLEAN :
         LET next == AfterAssistant(ok)
         IN  /\ Goto(p, next)
             /\ Upd(p, [S(p) EXCEPT
                    !.nAssistant = @ + 1,
                    !.assistant = IF ok THEN "ok" ELSE "failed",
                    !.outcome = IF next = "cleanupA"
                                THEN "assistant_failed" ELSE @])
    /\ Local

\* if not self.has_commits_ahead(): ...
CheckAhead(p) ==
    /\ pc[p] = "ahead"
    /\ \E o \in AheadOutcomes :
         LET next == AfterAhead(HasCommitsAhead(o))
         IN  /\ Goto(p, next)
             /\ Upd(p, [S(p) EXCEPT
                    !.nAhead = @ + 1,
                    !.ahead = o,
                    !.outcome = IF next = "cleanupA" THEN "no_changes" ELSE @])
    /\ Local

\* cleanup_branch(): if self.current_branch: git checkout <base>
CleanupBranch(s) ==
    IF s.current_branch
    THEN [s EXCEPT !.nCleanup = @ + 1, !.current_branch = FALSE]
    ELSE s

\* self.cleanup_branch() on the paths that notify after it
CleanupA(p) ==
    /\ pc[p] = "cleanupA"
    /\ Goto(p, "noteA")
    /\ Upd(p, CleanupBranch(S(p)))
    /\ Local

\* self.telegram.send(...); return <ResultOf(outcome)>
NoteA(p) ==
    /\ pc[p] = "noteA"
    /\ Notify(p)
    /\ Local

\* create_pull_request: if not self.has_commits_ahead(): return None
PrAhead(p) ==
    /\ pc[p] = "pr_ahead"
    /\ \E o \in AheadOutcomes :
         /\ Goto(p, IF HasCommitsAhead(o) THEN "push" ELSE "cleanupA")
         /\ Upd(p, [S(p) EXCEPT
                !.nAhead = @ + 1,
                !.outcome = IF HasCommitsAhead(o) THEN @ ELSE "pr_failed"])
    /\ Local

\* create_pull_request: git push -u origin <branch>
Push(p) ==
    /\ pc[p] = "push"
    /\ \E ok \in BOOLEAN :
         LET next == AfterPush(ok)
         IN  /\ Goto(p, next)
             /\ Upd(p, [S(p) EXCEPT
                    !.nPush = @ + 1,
                    !.push = IF ok THEN "ok" ELSE "failed",
                    !.outcome = IF next = "cleanupA" THEN "pr_failed" ELSE @])
    /\ Local

\* create_pull_request: gh pr create, then the scan of its output for a line
\* holding github.com and /pull/; None when the command failed or no line has it
GhCreate(p) ==
    /\ pc[p] = "gh_create"
    /\ \E r \in CreateOutcomes :
         LET next == AfterCreate(r)
         IN  /\ Goto(p, next)
             /\ Upd(p, [S(p) EXCEPT
                    !.nCreate = @ + 1,
                    !.create = r,
                    !.outcome = IF next = "cleanupA" THEN "pr_failed" ELSE @])
    /\ Local

\* while iteration < self.max_iterations: iteration += 1
Loop(p) ==
    /\ pc[p] = "loop"
    /\ IF LoopGoesOn(S(p).iteration, max_iterations)
       THEN /\ Goto(p, "review")
            /\ Upd(p, [S(p) EXCEPT !.iteration = @ + 1])
       ELSE /\ Goto(p, "after_loop")
            /\ UNCHANGED sess
    /\ Local

\* approved, review_output, feedback = self.review_pr_with_claude(pr_url)
Review(p) ==
    /\ pc[p] = "review"
    /\ \E out \in ReviewOutputs :
         IF Approved(out)
         THEN LET next == AfterApproval(auto_merge)
              IN  /\ Goto(p, next)
                  /\ Upd(p, [S(p) EXCEPT
                         !.nReview = @ + 1,
                         !.approvals = @ + 1,
                         !.approved = "yes",
                         !.outcome = IF next = "noteB" THEN "ready" ELSE @])
         ELSE /\ Goto(p, "note_fixing")
              /\ Upd(p, [S(p) EXCEPT !.nReview = @ + 1,
                                     !.approved = "no"])
    /\ Local

\* merged = self.merge_pr(pr_url)
Merge(p) ==
    /\ pc[p] = "merge"
    /\ \E ok \in BOOLEAN :
         /\ Goto(p, "noteB")
         /\ Upd(p, [S(p) EXCEPT !.nMerge = @ + 1,
                                !.outcome = IF ok THEN "merged" ELSE "merge_failed"])
    /\ Local

\* the telegram.send of the approved branch (merged, merge failed or ready)
NoteB(p) ==
    /\ pc[p] = "noteB"
    /\ Notify(p)
    /\ Local

\* telegram.send("Fixing feedback ...") before the fixer is spawned
NoteFixing(p) ==
    /\ pc[p] = "note_fixing"
    /\ Notify(p)
    /\ Local

\* fix_success, fix_output = self.fix_pr_feedback(pr_url, feedback, iteration)
Fix(p) ==
    /\ pc[p] = "fix"
    /\ \E ok \in BOOLEAN :
         /\ Goto(p, AfterFix(ok))
         /\ Upd(p, [S(p) EXCEPT !.nFix = @ + 1,
                                !.fixFails = IF ok THEN @ ELSE @ + 1])
    /\ Local

\* if not fix_success: log; telegram.send("Fixer Failed"); break
NoteFixFail(p) ==
    /\ pc[p] = "note_fixfail"
    /\ Notify(p)
    /\ Local

\* if iteration >= self.max_iterations: telegram.send("Max Iterations ...")
AfterLoop(p) ==
    /\ pc[p] = "after_loop"
    /\ Notify(p)
    /\ Local

\* self.cleanup_branch(); ...; return True
CleanupB(p) ==
    /\ pc[p] = "cleanupB"
    /\ Goto(p, ExitPc("return"))
    /\ Upd(p, [CleanupBranch(S(p)) EXCEPT !.result = "true"])
    /\ Local

\* An exception raised by a statement inside try (self.log cannot append to
\* the log file, KeyboardInterrupt): the rest of the body is skipped.
Exception(p) ==
    /\ pc[p] \in TryPcs
    /\ Goto(p, ExitPc("raise"))
    /\ Upd(p, [S(p) EXCEPT !.result = "raised"])
    /\ Local

\* release() is done: run_once hands its result (or the exception) to main
RunOnceReturn(p) ==
    /\ pc[p] = "rel_ret"
    /\ Goto(p, "returned")
    /\ UNCHANGED sess
    /\ Local

\* if args.once: success = reviewer.run_once(); sys.exit(0 if success else 1)
MainOnce(p) ==
    /\ pc[p] = "returned"
    /\ S(p).result \in {"true", "false"}
    /\ Goto(p, "exited")
    /\ Upd(p, [S(p) EXCEPT !.exit = ExitCode(S(p).result = "true")])
    /\ Local

\* the caller takes the result (--interval, --cron) or the process is gone
\* (--once); the next run_once starts from scratch
Finish(p) ==
    /\ pc[p] \in {"returned", "exited"}
    /\ Goto(p, "idle")
    /\ Upd(p, InitSess)
    /\ Local

\* ------------------------------------- run_once in the other processes
\* acquire() from open to return, with no other process in between
Acquire(s, q) ==
    LET opened == OpenW(s, q)
    IN  IF opened.fd[q] = 0 THEN opened
        ELSE IF FlockOk(opened, q)
        THEN WritePid(FlockTake(opened, q), q)
        ELSE CloseFd(opened, q)

AcquireOk(s, q) == OpenW(s, q).fd[q] # 0 /\ FlockOk(OpenW(s, q), q)

\* run_once up to the try block: on a failed acquire it has returned False
OtherAcquire(q) ==
    /\ pc[q] = "idle"
    /\ LET ok == AcquireOk(LS, q)
       IN  /\ SetLock(Acquire(LS, q))
           /\ holder' = [holder EXCEPT ![q] = ok]
           /\ Goto(q, IF AfterAcquire(ok) = "returned" THEN "idle" ELSE "body")
    /\ UNCHANGED <<stale, sess, last, config, io, audit>>

\* the try block of run_once and the release() of its finally clause
OtherRelease(q) ==
    /\ pc[q] = "body"
    /\ SetLock(Release(LS, q))
    /\ stale' = StaleAfter(Release(LS, q))
    /\ holder' = [holder EXCEPT ![q] = FALSE]
    /\ Goto(q, "idle")
    /\ UNCHANGED <<sess, last, config, io, audit>>

\* -------------------------------------------- LockFile used on its own
LCallAcquire(p) ==
    /\ pc[p] = "idle"
    /\ fd[p] = 0
    /\ Goto(p, "acq_open")
    /\ last' = [last EXCEPT ![p] = IF @ = "release_held"
                                    THEN "acquire_after_release" ELSE "acquire"]
    /\ UNCHANGED <<lockVars, holder, stale, sess, config, io, audit>>

LAcquireReturn(p) ==
    /\ pc[p] \in {"acq_ret_true", "acq_ret_false"}
    /\ Goto(p, "idle")
    /\ UNCHANGED <<lockVars, holder, stale, sess, last, config, io, audit>>

LCallRelease(p) ==
    /\ pc[p] = "idle"
    /\ Goto(p, "rel_unlock")
    /\ last' = [last EXCEPT ![p] =
                   IF @ \in {"release_held", "release_idle", "release_again"}
                   THEN "release_again"
                   ELSE IF holder[p] THEN "release_held" ELSE "release_idle"]
    /\ UNCHANGED <<lockVars, holder, stale, sess, config, io, audit>>

LReleaseReturn(p) ==
    /\ pc[p] = "rel_ret"
    /\ Goto(p, "idle")
    /\ UNCHANGED <<lockVars, holder, stale, sess, last, config, io, audit>>

\* ------------------------------------------------ helpers on their own
\* No helper call is under way.
NoCall == [fn |-> "none"]

\* A reviewer output is a sequence of pieces of text: the verdict phrases, in
\* the spellings the reviewer prompt and the code use, the separators, and
\* any other word.
Chars == {"APPROVED", "lgtm", "ready to merge", "recommend merging",
          "CHANGES_REQUESTED", "changes_requested", ":", " ", "\n", "x"}

Texts == UNION {[1..n -> Chars] : n \in 0..MaxLen}

\* str.lower()
LowerIdentity(c) == c

Lower(c) ==
    CASE c = "APPROVED" -> "approved"
      [] c = "CHANGES_REQUESTED" -> "changes_requested"
      [] OTHER -> c

\* output_lower = output.lower()
LowerText(t) == [i \in 1..Len(t) |-> Lower(t[i])]

\* phrase in output_lower
Contains(t, phrase) == \E i \in 1..Len(t) : t[i] = phrase

AffirmativePhrases == {"approved", "lgtm", "ready to merge", "recommend merging"}

RejectionPhrase == "changes_requested"

\* What review_pr_with_claude looks at in the reviewer's output.
Verdict(ok, t) ==
    [ok     |-> ok,
     affirm |-> \E ph \in AffirmativePhrases : Contains(LowerText(t), ph),
     reject |-> Contains(LowerText(t), RejectionPhrase)]

\* re.IGNORECASE on CHANGES_REQUESTED
IsMarker(c) == Lower(c) = RejectionPhrase

\* \s, and what str.strip() removes
IsSpace(c) == c \in {" ", "\n"}

\* [:\s]
IsSep(c) == c = ":" \/ IsSpace(c)

MinOf(set) == CHOOSE i \in set : \A j \in set : i <= j

MaxOf(set) == CHOOSE i \in set : \A j \in set : i >= j

\* str.strip()
Strip(t) ==
    LET keep == {i \in 1..Len(t) : ~IsSpace(t[i])}
    IN  IF keep = {} THEN <<>> ELSE SubSeq(t, MinOf(keep), MaxOf(keep))

\* text[:n]
TruncateNever(t, n) == t

Truncate(t, n) == SubSeq(t, 1, IF n < Len(t) THEN n ELSE Len(t))

\* match.group(1) of CHANGES_REQUESTED[:\s]*(.+) matched at piece i: the
\* separators are skipped greedily, but (.+) needs one character, so the last
\* separator is given back when nothing else follows.
Group(t, i) ==
    LET rest   == SubSeq(t, i + 1, Len(t))
        nonsep == {j \in 1..Len(rest) : ~IsSep(rest[j])}
    IN  SubSeq(rest, IF nonsep = {} THEN Len(rest) ELSE MinOf(nonsep), Len(rest))

\* '\n'.join(lines[-n:]) for lines = t.split('\n')
LastLines(t, n) ==
    LET newlines == {i \in 1..Len(t) : t[i] = "\n"}
    IN  IF Cardinality(newlines) < n THEN t
        ELSE LET k == CHOOSE i \in newlines :
                          Cardinality({j \in newlines : j >= i}) = n
             IN  SubSeq(t, k + 1, Len(t))

\* _extract_review_feedback: re.search finds the leftmost marker that has at
\* least one character after it.
ExtractReviewFeedback(t) ==
    LET starts == {i \in 1..Len(t) : IsMarker(t[i]) /\ i < Len(t)}
    IN  IF starts # {}
        THEN Truncate(Strip(Group(t, MinOf(starts))), FeedbackLimit)
        ELSE LastLines(Strip(t), LastLineCount)

\* review_pr_with_claude(pr_url) with the reviewer's run_claude result given
ReviewPr ==
    /\ io.fn = "none"
    /\ \E ok \in BOOLEAN : \E t \in Texts :
         io' = [fn       |-> "review_pr_with_claude",
                ok       |-> ok,
                output   |-> t,
                approved |-> Approved(Verdict(ok, t)),
                feedback |-> ExtractReviewFeedback(t)]
    /\ UNCHANGED <<pc, lockVars, holder, stale, sess, last, config, audit>>

\* What subprocess.run can come to: the command ran to its end, with an exit
\* code and what it wrote; it ran out of time; it could not be launched.
ReturnCodes == {0, 1, 2}

ProcOutcomes ==
    [kind : {"completed"}, returncode : ReturnCodes,
     stdout : {<<>>, <<"out">>}, stderr : {<<>>, <<"err">>}]
    \cup [kind : {"timeout"}]
    \cup [kind : {"error"}, exc : {"No such file or directory",
                                   "Permission denied"}]

\* try: result = subprocess.run(...); return result.returncode == 0,
\* result.stdout + result.stderr; except subprocess.TimeoutExpired: return
\* False, <sentinel>; except Exception as e: return False, str(e)
RunUncaught(o, sentinel) ==
    CASE o.kind = "completed" ->
             [raised |-> FALSE, success |-> o.returncode = 0,
              output |-> o.stdout \o o.stderr]
      [] o.kind = "timeout" ->
             [raised |-> FALSE, success |-> FALSE, output |-> <<sentinel>>]
      [] o.kind = "error" ->
             [raised |-> TRUE, success |-> FALSE, output |-> <<o.exc>>]

Run(o, sentinel) ==
    CASE o.kind = "completed" ->
             [raised |-> FALSE, success |-> o.returncode = 0,
              output |-> o.stdout \o o.stderr]
      [] o.kind = "timeout" ->
             [raised |-> FALSE, success |-> FALSE, output |-> <<sentinel>>]
      [] o.kind = "error" ->
             [raised |-> FALSE, success |-> FALSE, output |-> <<o.exc>>]

\* run_cmd(cmd, timeout, cwd)
RunCmd ==
    /\ io.fn = "none"
    /\ \E o \in ProcOutcomes :
         io' = [fn |-> "run_cmd", outcome |-> o,
                result |-> Run(o, "Command timed out")]
    /\ UNCHANGED <<pc, lockVars, holder, stale, sess, last, config, audit>>

\* run_claude(prompt, timeout)
RunClaude ==
    /\ io.fn = "none"
    /\ \E o \in ProcOutcomes :
         io' = [fn |-> "run_claude", outcome |-> o,
                result |-> Run(o, "Claude timed out")]
    /\ UNCHANGED <<pc, lockVars, holder, stale, sess, last, config, audit>>

\* the helper has returned
HelperReturn ==
    /\ io.fn # "none"
    /\ io' = NoCall
    /\ UNCHANGED <<pc, lockVars, holder, stale, sess, last, config, audit>>

\* ------------------------------------------------------- branch names
\* self.modes: the improvement modes of the reviewer, each a name written
\* piece by piece
ModeLists ==
    {<<>>,
     <<(<<"fix", "_", "bugs">>)>>,
     <<(<<"improve", "_", "code">>), (<<"fix", "_", "bugs">>)>>}

\* datetime.now().strftime("%Y%m%d-%H%M%S"): the clock read to the second
Seconds == 1..NumSeconds

\* string.ascii_lowercase, scaled to two letters
Letters == {"a", "b"}

\* random.choices(string.ascii_lowercase, k=4): any four letters
Suffixes == [1..SuffixLen -> Letters]

\* str.replace("_", "-")
ReplaceUnderscore(m) == [i \in 1..Len(m) |-> IF m[i] = "_" THEN "-" ELSE m[i]]

\* f"auto-{mode_prefix}/{timestamp}-{suffix}"
GenerateBranchName(modes, timestamp, suffix) ==
    LET mode_prefix == IF modes # <<>> THEN ReplaceUnderscore(modes[1])
                       ELSE <<"review">>
    IN  <<"auto-">> \o mode_prefix \o <<"/", timestamp, "-">> \o suffix

\* one generate_branch_name() call: the clock read and the letters drawn
BranchCalls ==
    {[modes |-> m, timestamp |-> t, name |-> GenerateBranchName(m, t, x)] :
        m \in ModeLists, t \in Seconds, x \in Suffixes}

\* generate_branch_name() called, and called once more: the clock does not
\* go back between the two calls
GenerateBranch ==
    /\ \/ /\ io.fn = "none"
          /\ \E c \in BranchCalls :
               io' = [fn |-> "generate_branch_name", calls |-> <<c>>]
       \/ /\ io.fn = "generate_branch_name"
          /\ Len(io.calls) = 1
          /\ \E c \in BranchCalls :
               /\ c.timestamp >= io.calls[1].timestamp
               /\ io' = [io EXCEPT !.calls = Append(@, c)]
    /\ UNCHANGED <<pc, lockVars, holder, stale, sess, last, config, audit>>

\* ----------------------------------------------------------- audit tool
\* Lines a reasoning-API response is made of, each written piece by piece.
AuditLines ==
    {<<"ISSUES_FOUND:", " ", "YES">>,
     <<"ISSUES_FOUND:", " ", "NO">>,
     <<"CONTINUE:", " ", "YES">>,
     <<"CONTINUE:", " ", "NO">>,
     <<"INSTRUCTIONS_FOR_CLAUDE:">>,
     <<"INSTRUCTIONS_FOR_CLAUDE:", " ", "N/A">>,
     <<"INSTRUCTIONS_FOR_CLAUDE:", " ", "fix">>,
     <<>>,
     <<"n/a">>,
     <<"fix">>,
     <<" ", "fix">>,
     <<"issues_found:", " ", "yes">>}

\* response.split('\n') of a response: one line at least
Responses == UNION {[1..n -> AuditLines] : n \in 1..MaxLines}

\* str.upper()
Upper(c) ==
    CASE c = "n/a" -> "N/A"
      [] c = "yes" -> "YES"
      [] c = "issues_found:" -> "ISSUES_FOUND:"
      [] c = "fix" -> "FIX"
      [] OTHER -> c

UpperText(t) == [i \in 1..Len(t) |-> Upper(t[i])]

\* line_stripped.startswith(marker)
StartsWith(t, marker) == t # <<>> /\ t[1] = marker

\* line_stripped.split(':', 1)[1].strip() of a line that starts with a marker
FieldValue(t) == Strip(Tail(t))

\* 'YES' in value.upper()
SaysYes(value) == Contains(UpperText(value), "YES")

\* text.upper() != 'N/A'
IsNANever(t) == FALSE

IsNA(t) == UpperText(t) = <<"N/A">>

\* None: parse_audit_response never returns the empty string, it returns
\* None in its place
None == <<>>

\* the locals of parse_audit_response before the first line
ParseStartOptimistic ==
    [issues_found |-> TRUE, should_continue |-> TRUE,
     in_instructions_section |-> FALSE, instruction_lines |-> <<>>]

ParseStart ==
    [issues_found |-> FALSE, should_continue |-> FALSE,
     in_instructions_section |-> FALSE, instruction_lines |-> <<>>]

\* the body of `for line in lines`
ParseLine(st, line) ==
    LET line_stripped == Strip(line)
    IN  IF StartsWith(line_stripped, "ISSUES_FOUND:")
        THEN [st EXCEPT !.issues_found = SaysYes(FieldValue(line_stripped)),
                        !.in_instructions_section = FALSE]
        ELSE IF StartsWith(line_stripped, "CONTINUE:")
        THEN [st EXCEPT !.should_continue = SaysYes(FieldValue(line_stripped)),
                        !.in_instructions_section = FALSE]
        ELSE IF StartsWith(line_stripped, "INSTRUCTIONS_FOR_CLAUDE:")
        THEN LET rest == FieldValue(line_stripped)
             IN  [st EXCEPT !.in_instructions_section = TRUE,
                            !.instruction_lines =
                                IF rest # <<>> /\ ~IsNA(rest)
                                THEN Append(@, rest) ELSE @]
        ELSE IF st.in_instructions_section
        THEN [st EXCEPT !.instruction_lines =
                            IF line_stripped # <<>> /\ ~IsNA(line_stripped)
                            THEN Append(@, line) ELSE @]
        ELSE st

RECURSIVE ParseLines(_, _, _)
ParseLines(st, lines, i) ==
    IF i > Len(lines) THEN st
    ELSE ParseLines(ParseLine(st, lines[i]), lines, i + 1)

\* '\n'.join(lines)
RECURSIVE JoinLines(_)
JoinLines(lines) ==
    IF lines = <<>> THEN <<>>
    ELSE IF Len(lines) = 1 THEN lines[1]
    ELSE lines[1] \o <<"\n">> \o JoinLines(Tail(lines))

\* parse_audit_response(response), the response given line by line
ParseAuditResponse(lines) ==
    LET st           == ParseLines(ParseStart, lines, 1)
        instructions == Strip(JoinLines(st.instruction_lines))
    IN  [issues_found    |-> st.issues_found,
         should_continue |-> st.should_continue,
         instructions    |-> IF instructions = <<>> \/ IsNA(instructions)
                             THEN None ELSE instructions]

\* parse_audit_response called on a response
ParseAudit ==
    /\ io.fn = "none"
    /\ \E r \in Responses :
         io' = [fn       |-> "parse_audit_response",
                response |-> r,
                result   |-> ParseAuditResponse(r)]
    /\ UNCHANGED <<pc, lockVars, holder, stale, sess, last, config, audit>>

\* The three field markers of the response format.
FieldMarkers == {"ISSUES_FOUND:", "CONTINUE:", "INSTRUCTIONS_FOR_CLAUDE:"}

\* The response has a line for each of the three fields.
HasFields(r) ==
    \A m \in FieldMarkers : \E k \in 1..Len(r) : StartsWith(Strip(r[k]), m)

\* What main() sees of a response: whether it is the empty string, whether
\* it has its three fields, and what parse_audit_response makes of it.
ResponseFacts ==
    {[empty  |-> r = <<(<<>>)>>,
      fields |-> HasFields(r),
      parsed |-> ParseAuditResponse(r)] : r \in Responses}

\* What ask_gpt5 returns: None (no key, an HTTP or URL error, any other
\* exception, no output in the stream) or the text of the response.
AskOutcomes == {[kind |-> "none"]} \cup [kind : {"text"}, facts : ResponseFacts]

\* not audit_response
NoResponse(o) == o.kind = "none" \/ o.facts.empty

\* What run_claude_with_instructions comes to: the assistant exits with 0,
\* exits with another code, or the call raises (Popen or the temporary file
\* failing; the function has no except clause).
AssistOutcomes == {"ok", "failed", "raised"}

\* The audit tool is not running.
AuditOff ==
    [pc |-> "off", until_complete |-> FALSE, arg_max_iterations |-> 0,
     target_exists |-> FALSE, has_key |-> FALSE,
     iteration |-> 0, max_iterations |-> 0,
     response |-> "none", fields |-> FALSE,
     issues_found |-> FALSE, should_continue |-> FALSE, instructions |-> None,
     success |-> "none", given |-> None,
     nAsk |-> 0, nAssistant |-> 0, exit |-> "none"]

\* The audit tool started: its arguments and its environment.  --max-iterations
\* is any integer (argparse type=int, no range check).
AuditStarts ==
    {[AuditOff EXCEPT !.pc = "check_target", !.until_complete = uc,
                      !.arg_max_iterations = m, !.target_exists = te,
                      !.has_key = hk] :
        uc \in BOOLEAN, m \in IterationChoices, te \in BOOLEAN, hk \in BOOLEAN}

AuditLocal == UNCHANGED <<pc, lockVars, holder, stale, sess, last, config, io>>

\* sys.exit(code)
AuditExit(a, code) == [a EXCEPT !.pc = "exited", !.exit = code]

\* if not target_path.exists(): sys.exit(1)
AuditCheckTarget ==
    /\ audit.pc = "check_target"
    /\ audit' = IF ~audit.target_exists THEN AuditExit(audit, 1)
                ELSE [audit EXCEPT !.pc = "check_key"]
    /\ AuditLocal

\* if not os.environ.get("OPENAI_API_KEY"): sys.exit(1); then iteration = 0
\* and max_iterations = args.max_iterations if args.until_complete else 1
AuditCheckKey ==
    /\ audit.pc = "check_key"
    /\ audit' = IF ~audit.has_key THEN AuditExit(audit, 1)
                ELSE [audit EXCEPT
                        !.pc = "loop",
                        !.iteration = 0,
                        !.max_iterations = IF audit.until_complete
                                           THEN audit.arg_max_iterations
                                           ELSE 1]
    /\ AuditLocal

\* while iteration < max_iterations
AuditLoopGoesOnInclusive(iteration, max) == iteration <= max

AuditLoopGoesOn(iteration, max) == iteration < max

\* while iteration < max_iterations: iteration += 1
AuditLoop ==
    /\ audit.pc = "loop"
    /\ audit' = IF AuditLoopGoesOn(audit.iteration, audit.max_iterations)
                THEN [audit EXCEPT !.pc = "ask", !.iteration = @ + 1]
                ELSE [audit EXCEPT !.pc = "after"]
    /\ AuditLocal

\* content = read_target(...); audit_response = ask_gpt5(...);
\* if not audit_response: sys.exit(1); then parse_audit_response
AuditAsk ==
    /\ audit.pc = "ask"
    /\ \E o \in AskOutcomes :
         audit' =
            IF NoResponse(o)
            THEN AuditExit([audit EXCEPT !.nAsk = @ + 1,
                                         !.response = "none"], 1)
            ELSE [audit EXCEPT
                    !.pc = "decide",
                    !.nAsk = @ + 1,
                    !.response = "text",
                    !.fields = o.facts.fields,
                    !.issues_found = o.facts.parsed.issues_found,
                    !.should_continue = o.facts.parsed.should_continue,
                    !.instructions = o.facts.parsed.instructions]
    /\ AuditLocal

\* if not issues_found: break; if not should_continue: break;
\* if not instructions: break
AfterParseAlways(issues_found, should_continue, instructions) == "assist"

AfterParse(issues_found, should_continue, instructions) ==
    IF ~issues_found THEN "after"
    ELSE IF ~should_continue THEN "after"
    ELSE IF instructions = None THEN "after"
    ELSE "assist"

AuditDecide ==
    /\ audit.pc = "decide"
    /\ audit' = [audit EXCEPT
                    !.pc = AfterParse(audit.issues_found, audit.should_continue,
                                      audit.instructions)]
    /\ AuditLocal

\* if not success: (continue when --until-complete, else sys.exit(1));
\* if not args.until_complete: break
AfterAssistExitsZero(outcome, until_complete) ==
    IF until_complete THEN "loop" ELSE "after"

AfterAssist(outcome, until_complete) ==
    IF outcome = "raised" THEN "exit1"
    ELSE IF outcome = "failed" /\ ~until_complete THEN "exit1"
    ELSE IF ~until_complete THEN "after"
    ELSE "loop"

\* success, summary = run_claude_with_instructions(instructions, project_dir)
AuditAssist ==
    /\ audit.pc = "assist"
    /\ \E outcome \in AssistOutcomes :
         LET ran  == [audit EXCEPT !.nAssistant = @ + 1,
                                   !.given = audit.instructions,
                                   !.success = outcome]
             next == AfterAssist(outcome, audit.until_complete)
         IN  audit' = IF next = "exit1" THEN AuditExit(ran, 1)
                      ELSE [ran EXCEPT !.pc = next]
    /\ AuditLocal

\* after the loop: sys.exit(0)
AuditDone ==
    /\ audit.pc = "after"
    /\ audit' = AuditExit(audit, 0)
    /\ AuditLocal

\* What a file holds: so many characters.
FileTexts == {[i \in 1..n |-> "x"] : n \in 0..MaxFileSize}

\* A file under the target directory, in the order the extension loop and
\* rglob come to it: listed when its name ends in one of the eleven
\* extensions and its path holds neither '.git' nor 'node_modules'.
DirEntries == [listed : BOOLEAN, readable : BOOLEAN, text : FileTexts]

Targets ==
    [kind : {"file"}, readable : BOOLEAN, text : FileTexts]
    \cup [kind : {"dir"}, files : UNION {[1..n -> DirEntries] : n \in 0..MaxFiles}]
    \cup [kind : {"other"}]

\* contents, after the two for loops: one section per listed file read,
\* f"=== {relative path} ===\n{content}\n"
RECURSIVE Contents(_)
Contents(files) ==
    IF files = <<>> THEN <<>>
    ELSE IF files[1].listed /\ files[1].readable
    THEN <<(<<"=== ", "name", " ===", "\n">> \o files[1].text \o <<"\n">>)>>
             \o Contents(Tail(files))
    ELSE Contents(Tail(files))

\* read_target(target_path)
ReadTarget(t) ==
    CASE t.kind = "file" ->
             IF t.readable THEN t.text ELSE <<"[Error reading target]">>
      [] t.kind = "dir" ->
             IF Contents(t.files) # <<>> THEN JoinLines(Contents(t.files))
             ELSE <<"[No readable files found]">>
      [] OTHER -> <<"[Target not found]">>

\* read_target called on a target
ReadTargetCall ==
    /\ io.fn = "none"
    /\ \E t \in Targets :
         io' = [fn |-> "read_target", target |-> t, result |-> ReadTarget(t)]
    /\ UNCHANGED <<pc, lockVars, holder, stale, sess, last, config, audit>>

\* ---------------------------------------------- ask_gpt5: the stream
\* The lines of a streamed response, at most this many.
MaxChunks == 3

\* What a delta or a complete output can hold; <<>> is the empty string.
StreamTexts == {<<>>, <<"a">>, <<"b">>}

\* The lines the server can send, as the reader tells them apart:
\*   "blank"    a line that does not start with 'data: '
\*   "done"     data: [DONE]
\*   "garbage"  a data line json.loads rejects
\*   "scalar"   a data line holding valid JSON that is no object
\*              (null, a number, a string, a list)
\*   "unknown"  a JSON object of a type the reader has no branch for
\*   "text"     response.output_text.delta with delta = text
\*   "final"    response.done with response.output = text
StreamLines ==
    [kind : {"blank", "done", "garbage", "scalar", "unknown"}, text : {<<>>}]
        \cup [kind : {"text", "final"}, text : StreamTexts]

Streams == UNION {[1..n -> StreamLines] : n \in 0..MaxChunks}

\* the results of ask_gpt5 on a stream
StreamNone == [kind |-> "none", text |-> <<>>]

RECURSIVE Concat(_)
Concat(chunks) ==
    IF chunks = <<>> THEN <<>> ELSE chunks[1] \o Concat(Tail(chunks))

\* if output_chunks: return "".join(output_chunks); ...; return None
Assembled(output_chunks) ==
    IF output_chunks # <<>>
    THEN [kind |-> "assembled", text |-> Concat(output_chunks)]
    ELSE StreamNone

\* for line in response: ... with output_chunks as collected so far.
\* chunk_data.get on a value that is no dict raises AttributeError, which
\* only the handler around the whole request catches: return None.
RECURSIVE ReadStream(_, _)
ReadStream(lines, output_chunks) ==
    IF lines = <<>> THEN Assembled(output_chunks)
    ELSE LET line == lines[1]
             rest == Tail(lines)
         IN  CASE line.kind = "blank" -> ReadStream(rest, output_chunks)
               [] line.kind = "done" -> Assembled(output_chunks)
               [] line.kind = "garbage" -> ReadStream(rest, output_chunks)
               [] line.kind = "scalar" -> StreamNone
               [] line.kind = "unknown" -> ReadStream(rest, output_chunks)
               [] line.kind = "text" ->
                      ReadStream(rest, IF line.text # <<>>
                                       THEN Append(output_chunks, line.text)
                                       ELSE output_chunks)
               [] OTHER ->
                      IF line.text # <<>>
                      THEN [kind |-> "complete", text |-> line.text]
                      ELSE ReadStream(rest, output_chunks)

\* ask_gpt5 reading a streamed response
AskStream ==
    /\ io.fn = "none"
    /\ \E lines \in Streams :
         io' = [fn |-> "ask_gpt5", lines |-> lines,
                result |-> ReadStream(lines, <<>>)]
    /\ UNCHANGED <<pc, lockVars, holder, stale, sess, last, config, audit>>

\* ------------------------------------------------------- specifications
InitLock ==
    /\ pc = [p \in Procs |-> "idle"]
    /\ fd = [p \in Procs |-> 0]
    /\ path = 0
    /\ locked = [i \in Inodes |-> 0]
    /\ content = 0
    /\ holder = [p \in Procs |-> FALSE]
    /\ stale = FALSE
    /\ sess = [p \in Traced |-> InitSess]
    /\ last = [p \in Procs |-> "none"]

Init ==
    /\ InitLock
    /\ max_iterations \in IterationChoices
    /\ auto_merge \in BOOLEAN
    /\ enabled \in BOOLEAN
    /\ io = NoCall
    /\ audit = AuditOff

Next ==
    \/ \E p \in Traced :
        \/ RunOnceStart(p)
        \/ RunOnceLocked(p)
        \/ CheckoutBase(p)
        \/ Pull(p)
        \/ CheckoutNew(p)
        \/ NoteBranch(p)
        \/ RunAssistant(p)
        \/ CheckAhead(p)
        \/ CleanupA(p)
        \/ NoteA(p)
        \/ PrAhead(p)
        \/ Push(p)
        \/ GhCreate(p)
        \/ Loop(p)
        \/ Review(p)
        \/ Merge(p)
        \/ NoteB(p)
        \/ NoteFixing(p)
        \/ Fix(p)
        \/ NoteFixFail(p)
        \/ AfterLoop(p)
        \/ CleanupB(p)
        \/ Exception(p)
        \/ RunOnceReturn(p)
        \/ MainOnce(p)
        \/ Finish(p)
    \/ \E q \in Others :
        \/ OtherAcquire(q)
        \/ OtherRelease(q)
    \/ \E p \in Traced :
        \/ AcqOpen(p)
        \/ AcqFlock(p)
        \/ AcqWrite(p)
        \/ RelUnlock(p)
        \/ RelClose(p)
        \/ RelUnlink(p)
    \/ \E p \in Procs :
        \/ Crash(p)

Spec == Init /\ [][Next]_vars

LockInit ==
    /\ InitLock
    /\ max_iterations = DefaultMaxIterations
    /\ auto_merge = FALSE
    /\ enabled = FALSE
    /\ io = NoCall
    /\ audit = AuditOff

LockNext ==
    \E p \in Procs :
        \/ LCallAcquire(p)
        \/ AcqOpen(p)
        \/ AcqFlock(p)
        \/ AcqWrite(p)
        \/ LAcquireReturn(p)
        \/ LCallRelease(p)
        \/ RelUnlock(p)
        \/ RelClose(p)
        \/ RelUnlink(p)
        \/ LReleaseReturn(p)

LockSpec == LockInit /\ [][LockNext]_vars

HelperNext ==
    \/ AskStream
    \/ ReviewPr
    \/ RunCmd
    \/ RunClaude
    \/ GenerateBranch
    \/ ParseAudit
    \/ ReadTargetCall
    \/ HelperReturn

HelperSpec == LockInit /\ [][HelperNext]_vars

AuditInit ==
    /\ InitLock
    /\ max_iterations = DefaultMaxIterations
    /\ auto_merge = FALSE
    /\ enabled = FALSE
    /\ io = NoCall
    /\ audit \in AuditStarts

AuditNext ==
    \/ AuditCheckTarget
    \/ AuditCheckKey
    \/ AuditLoop
    \/ AuditAsk
    \/ AuditDecide
    \/ AuditAssist
    \/ AuditDone

AuditSpec == AuditInit /\ [][AuditNext]_vars

\* Either tool run on its own: a session of the reviewer with no other
\* process about, or a run of the audit tool.
LoopsInit ==
    /\ InitLock
    /\ io = NoCall
    /\ \/ /\ audit = AuditOff
          /\ max_iterations \in IterationChoices
          /\ auto_merge \in BOOLEAN
          /\ enabled \in BOOLEAN
       \/ /\ audit \in AuditStarts
          /\ max_iterations = DefaultMaxIterations
          /\ auto_merge = FALSE
          /\ enabled = FALSE

\* A session of the reviewer is started where the audit tool is not the
\* tool being run.
RunOnceAlone(p) ==
    /\ audit.pc = "off"
    /\ RunOnceStart(p)

LoopsNext ==
    \/ \E p \in Traced :
        \/ RunOnceAlone(p)
        \/ AcqOpen(p)
        \/ AcqFlock(p)
        \/ AcqWrite(p)
        \/ RunOnceLocked(p)
        \/ CheckoutBase(p)
        \/ Pull(p)
        \/ CheckoutNew(p)
        \/ NoteBranch(p)
        \/ RunAssistant(p)
        \/ CheckAhead(p)
        \/ CleanupA(p)
        \/ NoteA(p)
        \/ PrAhead(p)
        \/ Push(p)
        \/ GhCreate(p)
        \/ Loop(p)
        \/ Review(p)
        \/ Merge(p)
        \/ NoteB(p)
        \/ NoteFixing(p)
        \/ Fix(p)
        \/ NoteFixFail(p)
        \/ AfterLoop(p)
        \/ CleanupB(p)
        \/ Exception(p)
        \/ RelUnlock(p)
        \/ RelClose(p)
        \/ RelUnlink(p)
        \/ RunOnceReturn(p)
        \/ MainOnce(p)
        \/ Finish(p)
    \/ AuditCheckTarget
    \/ AuditCheckKey
    \/ AuditLoop
    \/ AuditAsk
    \/ AuditDecide
    \/ AuditAssist
    \/ AuditDone

LoopsSpec == LoopsInit /\ [][LoopsNext]_vars

\* main() is one sequential process whose calls all return: a step that can
\* be taken is taken.
AuditFairSpec == AuditSpec /\ WF_vars(AuditNext)

\* ---------------------------------------------------------------- claims
\* p is inside the try block of run_once: acquire() has returned True and
\* release() has not been called yet.
InTry(p) == pc[p] \in TryPcs \cup {"body"}

Max0(n) == IF n < 0 THEN 0 ELSE n

NoCommand(s) ==
    /\ s.nCoBase = 0 /\ s.nPull = 0 /\ s.nCoNew = 0 /\ s.nAssistant = 0
    /\ s.nAhead = 0 /\ s.nPush = 0 /\ s.nCreate = 0 /\ s.nReview = 0
    /\ s.nFix = 0 /\ s.nMerge = 0 /\ s.nCleanup = 0

\* C1: at most one process at a time is between a successful acquire and its
\* release (inside the try block of run_once).  Stated as the claim has it;
\* the code breaks it.
C1_MutualExclusion ==
    \A p \in Procs : \A q \in Procs : p # q => ~(InTry(p) /\ InTry(q))

\* C2 as stated: in no session is the reviewer invoked more than
\* max_iterations times, and when every review rejects and every fix succeeds
\* the loop ends after exactly max_iterations reviews.
C2_Original ==
    \A p \in Traced :
        /\ S(p).acquired => S(p).nReview <= max_iterations
        /\ (pc[p] = "after_loop" /\ S(p).approvals = 0 /\ S(p).fixFails = 0)
               => S(p).nReview = max_iterations

\* C2 amended: the same with max(max_iterations, 0) for max_iterations: the
\* reviewer is never invoked more often than that, and a loop of rejections
\* and successful fixes ends after exactly that many reviews.
C2_ReviewBound ==
    \A p \in Traced :
        /\ S(p).nReview <= Max0(max_iterations)
        /\ S(p).nReview = S(p).iteration \/ S(p).nReview + 1 = S(p).iteration
        /\ (pc[p] = "after_loop" /\ S(p).approvals = 0 /\ S(p).fixFails = 0)
               => S(p).nReview = Max0(max_iterations)

C2_Witness ==
    \E p \in Traced :
        /\ pc[p] = "after_loop"
        /\ S(p).approvals = 0 /\ S(p).fixFails = 0
        /\ max_iterations = MaxIterations
        /\ S(p).nReview = MaxIterations

\* C3: a run_once call that acquired the lock has released it when it
\* returns, by a return statement or by an exception: no descriptor is held
\* and no flock is left.
C3_ReleasedOnReturn ==
    \A p \in Traced :
        (pc[p] = "returned" /\ S(p).acquired)
            => /\ fd[p] = 0
               /\ ~holder[p]
               /\ \A i \in Inodes : locked[i] # p

C3_Witness ==
    \E p \in Traced :
        /\ pc[p] = "returned" /\ S(p).acquired
        /\ S(p).result = "raised" /\ S(p).nAssistant = 1

\* C4: a run_once call that acquired the lock has issued the checkout of the
\* base branch of cleanup_branch when it returns.  Stated as the claim has it;
\* the code breaks it.
C4_CleanupCheckout ==
    \A p \in Traced :
        (pc[p] = "returned" /\ S(p).acquired) => S(p).nCleanup >= 1

\* C5: once has_commits_ahead has returned False in run_once, nothing is
\* pushed and no change request is created in that session, and the call
\* returns True; a change request is created only after it returned True.
C5_NoOpPath ==
    \A p \in Traced :
        /\ S(p).ahead \in {"zero", "failed", "garbled"}
               => /\ S(p).nPush = 0 /\ S(p).nCreate = 0
                  /\ (pc[p] = "returned" /\ S(p).result # "raised")
                         => S(p).result = "true"
        /\ (S(p).nPush > 0 \/ S(p).nCreate > 0) => S(p).ahead = "ahead"

C5_Witness ==
    \E p \in Traced :
        /\ pc[p] = "returned" /\ S(p).ahead = "zero"
        /\ S(p).assistant = "ok" /\ S(p).result = "true"

C7_ReacquireSucceeds ==
    [][\A p \in Procs :
          (pc[p] = "acq_flock" /\ pc'[p] = "acq_ret_false")
              => \E q \in Procs \ {p} : holder[q] /\ fd[q] = fd[p]]_vars

C7_Witness ==
    \E p \in Procs :
        /\ last[p] = "acquire_after_release"
        /\ pc[p] = "acq_ret_true"

\* C8: release() run a second time changes nothing, and after release() the
\* object holds no descriptor and no file is at the lock path, whether or not
\* the object held the lock and whether or not the file was there.
C8_ReleaseIdempotent ==
    \A p \in Procs :
        LET once == Release(LS, p)
        IN  /\ Release(once, p) = once
            /\ once.fd[p] = 0
            /\ once.path = 0
            /\ pc[p] = "rel_ret" => fd[p] = 0

C8_Witness ==
    \E p \in Procs :
        /\ last[p] = "release_again"
        /\ pc[p] = "rel_ret"
        /\ path = 0

StaleAcquire(p) ==
    /\ stale
    /\ path # 0
    /\ pc[p] = "acq_flock"
    /\ fd[p] = path
    /\ pc'[p] \notin {"acq_flock", "idle"}

\* C9 as stated: while the lock file of a crashed holder is on disk, every
\* acquire on that path fails.
C9_StaleBlocks ==
    [][\A p \in Traced : StaleAcquire(p) => pc'[p] = "acq_ret_false"]_vars

\* C9 amended: the lock file of a crashed holder does not block: it is opened
\* like any other, and the flock on it succeeds unless a live process holds it.
C9_StaleDoesNotBlock ==
    [][\A p \in Traced :
          /\ (stale /\ path # 0 /\ pc[p] = "acq_open"
                  /\ pc'[p] \notin {"acq_open", "idle"})
                 => (pc'[p] = "acq_flock" /\ stale' /\ fd'[p] = path')
          /\ (StaleAcquire(p) /\ ~\E q \in Procs \ {p} : holder[q])
                 => pc'[p] = "acq_write"]_vars

C9_Witness ==
    \E p \in Traced :
        /\ stale /\ path # 0
        /\ pc[p] = "acq_write" /\ fd[p] = path

\* C10: after a failed initial assistant invocation the session checks no
\* commits ahead, pushes nothing, creates no change request, and runs no
\* reviewer, fixer or merge; when run_once returns it returns False, the
\* failure notification was sent and the base branch was checked out.
C10_AssistantFailure ==
    \A p \in Traced :
        S(p).assistant = "failed"
            => /\ S(p).nAhead = 0 /\ S(p).nPush = 0 /\ S(p).nCreate = 0
               /\ S(p).nReview = 0 /\ S(p).nFix = 0 /\ S(p).nMerge = 0
               /\ (pc[p] = "returned" /\ S(p).result # "raised")
                      => /\ S(p).result = "false"
                         /\ "assistant_failed" \in S(p).notes
                         /\ S(p).nCleanup = 1

C10_Witness ==
    \E p \in Traced :
        /\ pc[p] = "returned" /\ S(p).assistant = "failed"
        /\ S(p).result = "false"

\* C11: after a failed push or a failed gh pr create the session runs no
\* reviewer, fixer or merge, and after a failed push it never runs gh pr
\* create; when run_once returns it returns False and the failure notification
\* was sent.
C11_CreationFailure ==
    \A p \in Traced :
        (S(p).push = "failed" \/ S(p).create = "failed")
            => /\ S(p).nReview = 0 /\ S(p).nFix = 0 /\ S(p).nMerge = 0
               /\ S(p).push = "failed" => S(p).nCreate = 0
               /\ (pc[p] = "returned" /\ S(p).result # "raised")
                      => /\ S(p).result = "false"
                         /\ "pr_failed" \in S(p).notes

C11_Witness ==
    \E p \in Traced :
        /\ pc[p] = "returned" /\ S(p).result = "false"
        /\ S(p).push = "ok" /\ S(p).create = "failed"

\* The piece c spells the phrase, in either case.
Spells(c, phrase) ==
    \/ c = phrase
    \/ phrase = "approved" /\ c = "APPROVED"
    \/ phrase = "changes_requested" /\ c = "CHANGES_REQUESTED"

Reviewed == io.fn = "review_pr_with_claude"

\* C12: review_pr_with_claude reports approved exactly when its output has,
\* in either case, one of approved, lgtm, ready to merge, recommend merging,
\* and has not, in either case, changes_requested.
C12_ApprovalDetection ==
    Reviewed =>
        (io.approved <=>
            /\ \E i \in 1..Len(io.output) :
                   \E ph \in {"approved", "lgtm", "ready to merge",
                               "recommend merging"} : Spells(io.output[i], ph)
            /\ ~\E i \in 1..Len(io.output) :
                   Spells(io.output[i], "changes_requested"))

C12_Witness ==
    /\ Reviewed
    /\ ~io.approved
    /\ \E i \in 1..Len(io.output) : io.output[i] = "APPROVED"
    /\ \E i \in 1..Len(io.output) : io.output[i] = "CHANGES_REQUESTED"

Markers(t) == {i \in 1..Len(t) : Spells(t[i], "changes_requested")}

NewlineCount(t) == Cardinality({i \in 1..Len(t) : t[i] = "\n"})

\* f is the last n lines of t
IsLastLines(f, t, n) ==
    \E k \in 0..Len(t) :
        /\ f = SubSeq(t, k + 1, Len(t))
        /\ k = 0 \/ t[k] = "\n"
        /\ IF NewlineCount(t) < n THEN k = 0 ELSE NewlineCount(f) = n - 1

\* t with the separators at its start and the whitespace at its end removed
Unwrapped(t) ==
    LET body == {j \in 1..Len(t) : ~IsSep(t[j])}
        solid == {j \in 1..Len(t) : ~IsSpace(t[j])}
    IN  IF body = {} THEN <<>> ELSE SubSeq(t, MinOf(body), MaxOf(solid))

C14_FixerFailureStops ==
    /\ [](\A p \in Traced :
             S(p).fixFails > 0
                 => /\ S(p).fixFails = 1
                    /\ S(p).nMerge = 0
                    /\ S(p).approved = "no"
                    /\ pc[p] \notin {"loop", "review", "note_fixing", "fix",
                                      "merge", "noteB"}
                    /\ (pc[p] = "returned" /\ S(p).result # "raised")
                           => "fixer_failed" \in S(p).notes)
    /\ [][\A p \in Traced :
             (S(p).fixFails > 0 /\ sess'[p].fixFails > 0)
                 => /\ sess'[p].nReview = S(p).nReview
                    /\ sess'[p].nFix = S(p).nFix
                    /\ sess'[p].nMerge = S(p).nMerge]_vars

C14_Witness ==
    \E p \in Traced :
        /\ pc[p] = "returned"
        /\ S(p).fixFails = 1
        /\ S(p).nFix > 1
        /\ "fixer_failed" \in S(p).notes

\* C15: a merge is attempted only with auto-merge enabled and right after an
\* approved review, at most once in a session; with auto-merge disabled no
\* merge is attempted and an approved session has sent the ready-for-manual-
\* merge notification when it returns.
C15_MergeOnlyWhenApproved ==
    \A p \in Traced :
        /\ S(p).nMerge <= 1
        /\ (S(p).nMerge > 0 \/ pc[p] = "merge")
               => (auto_merge /\ S(p).approved = "yes")
        /\ ~auto_merge
               => /\ S(p).nMerge = 0
                  /\ (/\ pc[p] = "returned"
                      /\ S(p).result # "raised"
                      /\ S(p).approved = "yes") => "ready" \in S(p).notes

C15_Witness ==
    \E p \in Traced :
        /\ pc[p] = "returned"
        /\ S(p).nMerge = 1
        /\ S(p).nReview > 1

\* C16: a session that entered the loop, ran max_iterations reviews, none of
\* them approving, and returned, has sent the max-iterations notification and
\* has attempted no merge.
C16_MaxIterationsNotice ==
    \A p \in Traced :
        (/\ pc[p] = "returned"
         /\ S(p).result # "raised"
         /\ S(p).create = "url"
         /\ S(p).nReview = max_iterations
         /\ S(p).approvals = 0)
            => /\ "max_iterations" \in S(p).notes
               /\ S(p).nMerge = 0

C16_Witness ==
    \E p \in Traced :
        /\ pc[p] = "returned"
        /\ max_iterations > 1
        /\ S(p).nReview = max_iterations
        /\ S(p).approvals = 0
        /\ S(p).fixFails = 0
        /\ "max_iterations" \in S(p).notes

\* The session ended in one of the failures the claim lists.
FailureOutcome(s) ==
    \/ s.outcome \in {"branch_failed", "assistant_failed", "pr_failed",
                       "merge_failed"}
    \/ s.fixFails > 0

\* C17: a one-shot run exits with 1 after branch creation failure, assistant
\* failure, change-request creation failure, fixer failure and merge failure,
\* and with 0 after a no-op, a merge and an approval left for manual merge.
\* Stated as the claim has it; the code breaks it.
C17_ExitStatus ==
    \A p \in Traced :
        (pc[p] = "exited" /\ S(p).acquired)
            => /\ FailureOutcome(S(p)) => S(p).exit = 1
               /\ (/\ ~FailureOutcome(S(p))
                   /\ S(p).outcome \in {"no_changes", "merged", "ready"})
                      => S(p).exit = 0

\* C18: a run that found the lock unavailable has sent no notification, and
\* as a one-shot run it exits with 0.  Stated as the claim has it; the code
\* breaks it.
C18_SkipIsNoError ==
    \A p \in Traced :
        (pc[p] = "exited" /\ ~S(p).acquired)
            => /\ S(p).notes = {}
               /\ S(p).exit = 0

\* The statements of run_once that notify.
NotePcs == {"note_branch", "noteA", "noteB", "note_fixing", "note_fixfail",
            "after_loop"}

\* C19: wherever run_once notifies, what it goes on to do (its next statement,
\* its return value, the commands and notifications on its record) is the
\* same for a disabled notifier and for an enabled one whose request
\* succeeds, is answered with another status or raises; no send raises into
\* run_once.
C19_NotifierHasNoEffect ==
    \A p \in Traced :
        pc[p] \in NotePcs
            => \A e1 \in BOOLEAN, e2 \in BOOLEAN :
                   \A n1 \in NetOutcomes, n2 \in NetOutcomes :
                       /\ NotifyStep(pc[p], S(p), max_iterations, e1, n1)
                              = NotifyStep(pc[p], S(p), max_iterations, e2, n2)
                       /\ Send(e1, n1) # "raised"
                       /\ NotifyStep(pc[p], S(p), max_iterations, e1, n1)
                              .sess.result # "raised"

C19_Witness ==
    \E p \in Traced :
        /\ enabled
        /\ pc[p] = "returned"
        /\ S(p).result = "true"
        /\ {"fixing", "merged"} \subseteq S(p).notes

\* C20: run_cmd and run_claude raise for no outcome of the command: a
\* timeout gives (False, the function's fixed message), a failed launch gives
\* (False, the exception's text), and a command that ran gives (exit code is
\* zero, stdout followed by stderr).
C20_RunNeverRaises ==
    io.fn \in {"run_cmd", "run_claude"} =>
        /\ ~io.result.raised
        /\ io.outcome.kind = "timeout" =>
               /\ ~io.result.success
               /\ io.result.output = IF io.fn = "run_cmd"
                                     THEN <<"Command timed out">>
                                     ELSE <<"Claude timed out">>
        /\ io.outcome.kind = "error" =>
               /\ ~io.result.success
               /\ io.result.output = <<io.outcome.exc>>
        /\ io.outcome.kind = "completed" =>
               /\ io.result.success <=> io.outcome.returncode = 0
               /\ Len(io.result.output)
                      = Len(io.outcome.stdout) + Len(io.outcome.stderr)
               /\ \A i \in 1..Len(io.outcome.stdout) :
                      io.result.output[i] = io.outcome.stdout[i]
               /\ \A i \in 1..Len(io.outcome.stderr) :
                      io.result.output[Len(io.outcome.stdout) + i]
                          = io.outcome.stderr[i]

C20_Witness ==
    /\ io.fn = "run_claude"
    /\ io.outcome.kind = "error"
    /\ ~io.result.success

\* C21: any two calls of generate_branch_name made within the same second
\* with the same modes return different branch names.
C21_UniqueNames ==
    (io.fn = "generate_branch_name" /\ Len(io.calls) = 2) =>
        ((/\ io.calls[1].timestamp = io.calls[2].timestamp
          /\ io.calls[1].modes = io.calls[2].modes)
            => io.calls[1].name # io.calls[2].name)

\* The lines of a response from its first instructions marker on, without
\* the marker itself.
MarkerLines(r) == {k \in 1..Len(r) : StartsWith(Strip(r[k]), "INSTRUCTIONS_FOR_CLAUDE:")}

AfterMarker(r) ==
    LET k == MinOf(MarkerLines(r))
    IN  JoinLines(<<Tail(Strip(r[k]))>> \o SubSeq(r, k + 1, Len(r)))

\* The only text after the instructions marker is the N/A sentinel.
OnlyNA(r) ==
    /\ MarkerLines(r) # {}
    /\ \E solid \in {{i \in 1..Len(AfterMarker(r)) : ~IsSpace(AfterMarker(r)[i])}} :
         /\ Cardinality(solid) = 1
         /\ \A i \in solid : AfterMarker(r)[i] \in {"N/A", "n/a"}

\* The lines of a response that carry the flag named, and what they say.
FlagLines(r, marker) == {k \in 1..Len(r) : StartsWith(Strip(r[k]), marker)}

SaysNo(r, marker) ==
    /\ FlagLines(r, marker) # {}
    /\ \A k \in FlagLines(r, marker) : Strip(Tail(Strip(r[k]))) = <<"NO">>

\* C23: parse_audit_response returns instructions None whenever the only
\* text after the instructions marker is N/A, on the marker line or on
\* following lines, and returns issues_found False and should_continue
\* False when both flag lines say NO.
C23_SentinelAndFlags ==
    io.fn = "parse_audit_response" =>
        /\ OnlyNA(io.response) => io.result.instructions = None
        /\ (SaysNo(io.response, "ISSUES_FOUND:") /\ SaysNo(io.response, "CONTINUE:"))
              => (~io.result.issues_found /\ ~io.result.should_continue)

C23_Witness ==
    /\ io.fn = "parse_audit_response"
    /\ OnlyNA(io.response)
    /\ SaysNo(io.response, "ISSUES_FOUND:")
    /\ SaysNo(io.response, "CONTINUE:")
    /\ io.result = [issues_found |-> FALSE, should_continue |-> FALSE,
                    instructions |-> None]

\* C24: for a response whose instructions block after the marker is not
\* N/A, parse_audit_response returns that block as it stands: every line of
\* it, blank lines and lines that begin with a field marker included,
\* unchanged and in order (white space around the whole block set aside).
C24_Verbatim ==
    (/\ io.fn = "parse_audit_response"
     /\ MarkerLines(io.response) # {}
     /\ ~OnlyNA(io.response)
     /\ Strip(AfterMarker(io.response)) # <<>>)
        => io.result.instructions = Strip(AfterMarker(io.response))

\* A character budget below the largest file explored: text capped to any
\* fixed budget stays within it once the files outgrow it.
CharBudget == MaxFileSize - 1

\* C29: the text read_target returns for a file or a directory never
\* exceeds a fixed character budget, whatever the number and size of the
\* files read.
C29_Capped ==
    (io.fn = "read_target" /\ io.target.kind \in {"file", "dir"})
        => Len(io.result) <= CharBudget

\* What the claims call actionable: issues found, continuation asked for,
\* and instructions that are not empty.
Actionable(a) == a.issues_found /\ a.should_continue /\ a.instructions # <<>>

\* C25: in an audit iteration the assistant is invoked if and only if the
\* parsed response has issues_found true, should_continue true and non-empty
\* instructions, and it is invoked with exactly those instructions; in every
\* other case the loop ends without invoking the assistant.
C25_AssistantIff ==
    [][/\ audit.pc = "decide" =>
            IF Actionable(audit) THEN audit'.pc = "assist"
            ELSE audit'.pc = "after" /\ audit'.nAssistant = audit.nAssistant
       /\ audit.pc = "assist" => audit'.nAssistant = audit.nAssistant + 1
       /\ audit'.nAssistant # audit.nAssistant =>
            /\ Actionable(audit)
            /\ audit.response = "text"
            /\ audit'.nAssistant = audit.nAssistant + 1
            /\ audit'.given = audit.instructions
       /\ audit.pc = "after" => audit'.pc = "exited" /\ audit'.nAsk = audit.nAsk]_vars

C25_Witness ==
    /\ audit.nAssistant = 1
    /\ audit.nAsk = 1
    /\ Actionable(audit)
    /\ audit.given = audit.instructions
    /\ audit.given = <<"fix">>

\* C28: a reasoning-API response that is malformed or lacks a field marker
\* is treated as having no actionable instructions: the assistant is not
\* invoked for it and the audit loop ends for that iteration.
C28_MalformedEndsLoop ==
    [][(audit.response = "text" /\ ~audit.fields) =>
          /\ audit'.nAssistant = audit.nAssistant
          /\ audit'.nAsk = audit.nAsk
          /\ audit.pc = "decide" => audit'.pc = "after"
          /\ audit.pc = "after" => audit'.pc = "exited"]_vars

C28_Witness ==
    /\ audit.pc = "exited"
    /\ audit.exit = 0
    /\ audit.response = "text"
    /\ ~audit.fields
    /\ audit.issues_found /\ audit.should_continue
    /\ audit.until_complete
    /\ audit.iteration < audit.max_iterations
    /\ audit.nAssistant = 0

\* C27 as stated: the audit tool exits with code 1 only when the credential
\* is missing or the target is unreachable; every other run, one where the
\* reasoning API call fails or the assistant invocation fails included, ends
\* with exit code 0.
C27_Original ==
    audit.pc = "exited" =>
        (audit.exit = 1 <=> (~audit.target_exists \/ ~audit.has_key))

\* The run ended on a reasoning-API call that gave no response.
ApiFailed(a) == a.nAsk > 0 /\ a.response = "none"

\* The run ended on an assistant invocation that failed: without
\* --until-complete a non-zero exit of the assistant, and in either mode the
\* invocation raising.
AssistantFailed(a) ==
    /\ a.nAssistant > 0
    /\ \/ a.success = "raised"
       \/ a.success = "failed" /\ ~a.until_complete

\* C27 amended: the audit tool exits with code 1 when the target is
\* unreachable, when the credential is missing, when a reasoning-API call
\* gives no response, and when the assistant invocation fails in a single
\* run (or cannot be started at all); every other run ends with exit code 0,
\* a failed assistant invocation under --until-complete included.
C27_ExitCodes ==
    audit.pc = "exited" =>
        /\ audit.exit \in {0, 1}
        /\ audit.exit = 1 <=>
             \/ ~audit.target_exists
             \/ ~audit.has_key
             \/ ApiFailed(audit)
             \/ AssistantFailed(audit)

C27_Witness ==
    /\ audit.pc = "exited"
    /\ audit.exit = 1
    /\ audit.target_exists /\ audit.has_key
    /\ ~audit.until_complete
    /\ audit.nAssistant = 1
    /\ audit.success = "failed"

\* main() has come to its loop: iteration and max_iterations are set.
AtAuditLoop(a) == a.pc \in {"loop", "ask", "decide", "assist", "after"}

\* In the loop, the reasoning-API calls made so far are within the limit
\* given under --until-complete, and within one call without it.
AskBound(limit) ==
    AtAuditLoop(audit) =>
        /\ audit.until_complete => audit.nAsk <= limit
        /\ ~audit.until_complete => audit.nAsk <= 1

\* No reasoning-API call follows a response that reported no issues, declined
\* to continue or gave no instructions.
StopsAtFirst ==
    (audit.response = "text" /\ ~Actionable(audit))
        => audit.pc \in {"decide", "after", "exited"}

AtReviewLoop(p) == pc[p] # "idle" /\ S(p).create = "url"

\* Each step leaves both iteration counters as they are or adds one to them;
\* the counter of a session starts again with the next session.
CountersStep ==
    /\ \A p \in Traced :
          \/ sess'[p].iteration = S(p).iteration
          \/ sess'[p].iteration = S(p).iteration + 1 /\ pc[p] = "loop"
          \/ pc'[p] = "idle"
    /\ \/ audit'.iteration = audit.iteration
       \/ audit'.iteration = audit.iteration + 1 /\ audit.pc = "loop"

\* Both counters are within the limits given.
CountersBound(review_limit, audit_limit) ==
    /\ \A p \in Traced : AtReviewLoop(p) => S(p).iteration <= review_limit
    /\ AtAuditLoop(audit) => audit.iteration <= audit_limit

\* C22 as stated: in the review-fix loop and in the audit loop the iteration
\* counter only ever increases, by one per pass, and in every state it is at
\* most the configured maximum, for every configured maximum, zero and
\* negative values included.
C22_Original ==
    /\ [][CountersStep]_vars
    /\ [](CountersBound(max_iterations, audit.max_iterations))

\* C22 amended: the same, the counter being at most max(maximum, 0): with a
\* negative maximum the counter stays at its initial 0, above the maximum.
C22_Counters ==
    /\ [][CountersStep]_vars
    /\ [](CountersBound(Max0(max_iterations), Max0(audit.max_iterations)))

C22_Witness ==
    /\ audit.pc = "after"
    /\ audit.until_complete
    /\ audit.max_iterations = MaxIterations
    /\ audit.iteration = MaxIterations
    /\ audit.success = "failed"

\* The step runs the operation counted in field f of the session of p.
Runs(p, f) == sess'[p][f] = S(p)[f] + 1

\* The operations the order is about, each by the field that counts it, in
\* the order stated; the reviewer and the fixer share the last place but one.
Pipeline ==
    <<"nCoBase", "nCoNew", "nAssistant", "nAhead", "nPush", "nCreate",
      "nReview", "nFix", "nMerge">>

\* None of the operations from place k on has run in s.
NoneFrom(s, k) == \A i \in k..Len(Pipeline) : s[Pipeline[i]] = 0

\* C30: in a session the external operations happen in this order and never
\* out of it: lock acquire, base checkout, branch creation, initial assistant
\* invocation, commits-ahead check, push, change-request creation, then
\* reviewer and fixer in turn starting with a reviewer, then at most one
\* merge, then lock release; no reviewer, fixer or merge runs before a
\* change-request URL was obtained.  (The pull after the base checkout and
\* the checkout that cleans up are not among the operations listed.)
C30_Order ==
    [][\A p \in Traced :
        /\ (\E i \in 1..Len(Pipeline) : Runs(p, Pipeline[i]))
              => (S(p).acquired /\ InTry(p) /\ fd[p] # 0)
        /\ Runs(p, "nCoBase") => NoneFrom(S(p), 1)
        /\ Runs(p, "nCoNew") => (S(p).nCoBase = 1 /\ NoneFrom(S(p), 2))
        /\ Runs(p, "nAssistant") => (S(p).nCoNew = 1 /\ NoneFrom(S(p), 3))
        /\ Runs(p, "nAhead") => (S(p).nAssistant = 1 /\ NoneFrom(S(p), 5))
        /\ Runs(p, "nPush") => (S(p).nAhead >= 1 /\ NoneFrom(S(p), 5))
        /\ Runs(p, "nCreate") => (S(p).nPush = 1 /\ NoneFrom(S(p), 6))
        /\ Runs(p, "nReview") =>
              /\ S(p).nCreate = 1 /\ S(p).create = "url"
              /\ S(p).nReview = S(p).nFix
              /\ S(p).nMerge = 0
        /\ Runs(p, "nFix") =>
              /\ S(p).nCreate = 1 /\ S(p).create = "url"
              /\ S(p).nReview = S(p).nFix + 1
              /\ S(p).nMerge = 0
        /\ Runs(p, "nMerge") =>
              /\ S(p).nCreate = 1 /\ S(p).create = "url"
              /\ S(p).nReview = S(p).nFix + 1
              /\ S(p).nMerge = 0]_vars

C30_Witness ==
    \E p \in Traced :
        /\ pc[p] = "returned"
        /\ fd[p] = 0
        /\ S(p).nCoBase = 1 /\ S(p).nCoNew = 1 /\ S(p).nAssistant = 1
        /\ S(p).nAhead = 2 /\ S(p).nPush = 1 /\ S(p).nCreate = 1
        /\ S(p).nReview = 2 /\ S(p).nFix = 1 /\ S(p).nMerge = 1

\* The last command of the loop of s was a fixer invocation that succeeded:
\* no review has followed it.
Unreviewed(s) == s.nFix > 0 /\ s.fixFails = 0 /\ s.nReview = s.nFix

BranchFailed(p) ==
    LET s == S(p)
    IN  \/ (s.nCoBase = 1 /\ s.nPull = 0 /\ pc[p] # "pull")
        \/ (s.nCoNew = 1 /\ ~s.current_branch /\ s.nCleanup = 0)

\* C32: a failed git pull --rebase does not stop the session (the branch is
\* still created, and once created the assistant is the next command), while
\* a failed checkout of the base branch or a failed git checkout -b is the
\* only way to the "Could not create branch" notification, after which
\* run_once returns False without any assistant invocation.
C32_SyncFailureGoesOn ==
    \A p \in Traced :
        LET s == S(p)
        IN  /\ (s.pull = "failed" /\ s.result # "raised")
                  => (pc[p] = "co_new" \/ s.nCoNew = 1)
            /\ (s.pull = "failed" /\ s.result # "raised"
                  /\ (s.current_branch \/ s.nCleanup = 1))
                  => (pc[p] = "assistant" \/ s.nAssistant = 1)
            /\ (pc[p] = "note_branch" \/ "branch_failed" \in s.notes)
                  => (BranchFailed(p) /\ s.nAssistant = 0)
            /\ (BranchFailed(p) /\ s.result # "raised")
                  => /\ pc[p] = "note_branch" \/ "branch_failed" \in s.notes
                     /\ s.nAssistant = 0
                     /\ pc[p] = "returned" => s.result = "false"

\* C32 witnesses: a session whose pull failed ran the assistant and ended
\* well; a session failed on git checkout -b after a good pull.
C32_Witness ==
    \E p \in Traced :
        /\ pc[p] = "returned" /\ S(p).pull = "failed"
        /\ S(p).nCoNew = 1 /\ S(p).nAssistant = 1 /\ S(p).nCleanup = 1
        /\ S(p).result = "true"

C32_WitnessFailed ==
    \E p \in Traced :
        /\ pc[p] = "returned" /\ S(p).pull = "ok" /\ S(p).nCoNew = 1
        /\ ~S(p).current_branch /\ S(p).result = "false"
        /\ "branch_failed" \in S(p).notes /\ S(p).nAssistant = 0

\* ---------------------------------------------------------------- C33
\* the lines that arrived before the end marker
RECURSIVE UpToDone(_)
UpToDone(lines) ==
    IF lines = <<>> \/ lines[1].kind = "done" THEN <<>>
    ELSE <<lines[1]>> \o UpToDone(Tail(lines))

\* the text deltas among lines, in arrival order
RECURSIVE Deltas(_)
Deltas(lines) ==
    IF lines = <<>> THEN <<>>
    ELSE IF lines[1].kind = "text" /\ lines[1].text # <<>>
    THEN <<lines[1].text>> \o Deltas(Tail(lines))
    ELSE Deltas(Tail(lines))

\* no final chunk carrying complete output arrived before the end marker
NoFinal(lines) ==
    \A i \in 1..Len(UpToDone(lines)) :
        ~(UpToDone(lines)[i].kind = "final" /\ UpToDone(lines)[i].text # <<>>)

\* the concatenation of the deltas received, None when there was none
DeltaResult(lines) ==
    IF Deltas(UpToDone(lines)) = <<>> THEN StreamNone
    ELSE [kind |-> "assembled", text |-> Concat(Deltas(UpToDone(lines)))]

\* C33: for any sequence of streamed lines without a final chunk carrying
\* complete output, the streaming reader's result is the concatenation of
\* the text deltas received before the end marker, in arrival order, every
\* other line being ignored, and None when no delta was received.
C33_StreamResult ==
    (io.fn = "ask_gpt5" /\ NoFinal(io.lines))
        => io.result = DeltaResult(io.lines)

\* The same, for streams whose data lines of valid JSON all hold objects.
C33_ObjectsOnly ==
    (/\ io.fn = "ask_gpt5"
     /\ NoFinal(io.lines)
     /\ \A i \in 1..Len(UpToDone(io.lines)) :
            UpToDone(io.lines)[i].kind # "scalar")
        => io.result = DeltaResult(io.lines)

\* ---------------------------------------------------------------- C34
\* the counters of the commands run_once issues: version control, the
\* assistant in its three roles, and the change-request tool
Commands ==
    {"nCoBase", "nPull", "nCoNew", "nAssistant", "nAhead", "nPush",
     "nCreate", "nReview", "nFix", "nMerge", "nCleanup"}

\* p issues a command in this step
Issues(p) == \E c \in Commands : sess'[p][c] > sess[p][c]

\* the run_once call of p holds the lock: acquire() returned True, release()
\* has not begun, and the flock on the file it opened is its own
HoldsLock(p) ==
    /\ S(p).acquired /\ InTry(p)
    /\ holder[p] /\ fd[p] # 0 /\ locked[fd[p]] = p

\* C34: every version-control command, assistant invocation and
\* change-request command of run_once is issued while that call holds the
\* lock: none before a successful acquire, none after the release.
C34_CommandsUnderLock ==
    /\ [][\A p \in Traced : Issues(p) => HoldsLock(p)]_vars
    /\ [](\A p \in Traced : ~NoCommand(S(p)) => S(p).acquired)

\* C34 witness: the reviewer has been invoked and the lock is still held.
C34_Witness ==
    \E p \in Traced :
        /\ HoldsLock(p) /\ S(p).nReview = 1 /\ S(p).nCreate = 1
        /\ \E q \in Others : pc[q] = "idle" /\ ~holder[q]

\* ---------------------------------------------------------------- C35
\* p takes a step of an acquire() that is bound to fail: q holds the flock on
\* the file at the lock path.
FailingAttempt(p, q) ==
    /\ holder[q] /\ fd[q] # 0 /\ fd[q] = path
    /\ pc[p] \in {"acq_open", "acq_flock"}
    /\ pc'[p] # pc[p]

\* C35: a failed acquire attempt changes nothing: while one process holds the
\* lock, no step of another process's acquire changes the lock file, which
\* keeps the holder's process id and timestamp.
C35_FailedAcquireFrame ==
    [][\A p \in Procs : \A q \in Procs \ {p} :
          FailingAttempt(p, q) => (path' = path /\ content' = content)]_vars

\* ---------------------------------------------------------------- C36
\* r, whose LockFile object does not hold the lock (its acquire had failed,
\* or it never acquired), ends a release() while q holds the lock on the
\* file at the lock path.
IdleReleaseEnds(r, q) ==
    /\ last[r] = "release_idle"
    /\ pc[r] = "rel_unlink" /\ pc'[r] = "rel_ret"
    /\ holder[q] /\ fd[q] # 0 /\ fd[q] = path

\* C36: a release by an object that does not hold the lock leaves the
\* holder's exclusion intact: after it, an acquire by any process other than
\* the holder still fails while the holder has not released.
C36_IdleReleaseKeepsExclusion ==
    [][\A r \in Procs : \A q \in Procs \ {r} :
          IdleReleaseEnds(r, q)
              => \A p \in Procs \ {q} : fd'[p] = 0 => ~AcquireOk(LS', p)]_vars

\* ---------------------------------------------------------------- C37
\* run_once acts on what review_pr_with_claude returns: approved leads to
\* the merge or the ready notification, not approved to the fixer, which is
\* handed the feedback.
\* C37: a reviewer invocation that did not succeed (timed out, exited
\* non-zero) gives run_once no verdict to act on: review_pr_with_claude
\* reports no approval, and no feedback taken from the failed invocation's
\* output goes to the fixer.
C37_FailedReviewNotActedOn ==
    (Reviewed /\ ~io.ok) => (~io.approved /\ io.feedback = <<>>)

\* ---------------------------------------------------------------- C38
\* C38: when max_iterations is at least 1, every session whose gh pr create
\* succeeded, whatever it printed, has invoked the reviewer at least once by
\* the time run_once returns (an exception aside).
C38_CreatedIsReviewed ==
    \A p \in Traced :
        (/\ pc[p] = "returned"
         /\ S(p).create \in {"url", "no_url"}
         /\ max_iterations >= 1
         /\ S(p).result # "raised")
            => S(p).nReview >= 1

\* The same, for a creation command that printed the change request's URL.
C38_UrlIsReviewed ==
    \A p \in Traced :
        (/\ pc[p] = "returned"
         /\ S(p).create = "url"
         /\ max_iterations >= 1
         /\ S(p).result # "raised")
            => S(p).nReview >= 1

\* ---------------------------------------------------------------- C39
\* the notifications that tell how a session ended
TerminalNotes ==
    {"branch_failed", "assistant_failed", "pr_failed", "no_changes",
     "merged", "merge_failed", "ready", "fixer_failed", "max_iterations"}

\* C39: with max_iterations at least 1, a session that acquired the lock and
\* returned (an exception aside) has handed exactly one terminal outcome
\* notification to the notifier, and the iterations-exhausted one only after
\* max_iterations reviews, all of them rejecting, with no fixer invocation
\* failed.
C39_OneTerminalNote ==
    \A p \in Traced :
        (/\ pc[p] = "returned" /\ S(p).acquired /\ S(p).result # "raised"
         /\ max_iterations >= 1)
            => /\ Cardinality(S(p).notes \cap TerminalNotes) = 1
               /\ "max_iterations" \in S(p).notes
                      => /\ S(p).nReview = max_iterations
                         /\ S(p).approvals = 0
                         /\ S(p).fixFails = 0

\* The same for the sessions in which every fixer invocation succeeded.
C39_OneTerminalNoteUnlessFixFails ==
    \A p \in Traced :
        (/\ pc[p] = "returned" /\ S(p).acquired /\ S(p).result # "raised"
         /\ max_iterations >= 1 /\ S(p).fixFails = 0)
            => /\ Cardinality(S(p).notes \cap TerminalNotes) = 1
               /\ "max_iterations" \in S(p).notes
                      => (S(p).nReview = max_iterations /\ S(p).approvals = 0)

\* ---------------------------------------------------------------- C40
\* C40: a run_once that ended with the no-changes success outcome (the
\* "No bugs found" notification and True) ran a commits-ahead command that
\* itself succeeded and reported zero commits.
C40_NoOpOnlyOnZero ==
    \A p \in Traced :
        (/\ pc[p] = "returned"
         /\ S(p).result = "true"
         /\ "no_changes" \in S(p).notes)
            => S(p).ahead = "zero"


====
